---- MODULE Spec2Model ----
(***************************************************************************)
(* Model of cwe_checker_rs/src/bil/mod.rs: the BIL expression tree, the    *)
(* let-binding elimination pass (replace_let_bindings / substitute), the   *)
(* bit-width inference (bitsize) and the lowering into the intermediate    *)
(* representation (From<Expression> for IrExpression).                     *)
(*                                                                         *)
(* An Expression is a record whose field "tag" names the enum variant and  *)
(* whose other fields are the variant's fields under their source names.   *)
(* A fatal failure (panic!, a failed assert!, unwrap of None, an overflow  *)
(* check) is the value PANIC for a width and the record Panic for a tree.  *)
(***************************************************************************)
EXTENDS Integers, FiniteSets, Sequences, TLC

VARIABLES input, expr, family, height, pc, width, ir, overflow_checks

vars == <<input, expr, family, height, pc, width, ir, overflow_checks>>

(***************************************************************************)
(* Bounds of the input trees.                                              *)
(***************************************************************************)
\* nesting depth of the Let / BinOp-PLUS input trees
LetDepth == 3
\* nesting depth of the input trees over all twelve variants
OpDepth == 2

(***************************************************************************)
(* Types.                                                                  *)
(***************************************************************************)
\* BitSize = u16: the number of values of the type
BitSizeRange == 65536

\* outcome of a fatal failure where a BitSize was expected
PANIC == -1

\* outcome of a fatal failure where an IrExpression was expected
Panic == [tag |-> "Panic"]

\* Option::None of Type::bitsize()
NONE == -2

Immediate(bits) == [tag |-> "Immediate", bits |-> bits]

Memory == [tag |-> "Memory"]

\* Type::bitsize(): the width of an immediate type, None otherwise
Type_bitsize(type_) == IF type_.tag = "Immediate" THEN type_.bits ELSE NONE

\* tests::register
register(name) == [name |-> name, type_ |-> Immediate(64), is_temp |-> FALSE]

\* Variable::bitsize()
Variable_bitsize(var) == Type_bitsize(var.type_)

\* Option::unwrap() of a width
unwrap(opt) == IF opt = NONE THEN PANIC ELSE opt

\* From<BitSize> for ByteSize: rounds up to the nearest full byte
ByteSize_from_floor(bitsize_) == bitsize_ \div 8

ByteSize_from(bitsize_) == (bitsize_ + 7) \div 8

(***************************************************************************)
(* Constructors of the Expression variants.                                *)
(***************************************************************************)
Var(v) == [tag |-> "Var", var |-> v]

Const(w, n) == [tag |-> "Const", width |-> w, value |-> n]

Load(m, a, s) ==
  [tag |-> "Load", memory |-> m, address |-> a, endian |-> "LittleEndian", size |-> s]

Store(m, a, v, s) ==
  [tag |-> "Store", memory |-> m, address |-> a, value |-> v,
   endian |-> "LittleEndian", size |-> s]

BinOp(op, l, r) == [tag |-> "BinOp", op |-> op, lhs |-> l, rhs |-> r]

UnOp(op, a) == [tag |-> "UnOp", op |-> op, arg |-> a]

Cast(k, w, a) == [tag |-> "Cast", kind |-> k, width |-> w, arg |-> a]

Let(v, b, e) == [tag |-> "Let", var |-> v, bound_exp |-> b, body_exp |-> e]

Unknown(d, t) == [tag |-> "Unknown", description |-> d, type_ |-> t]

IfThenElse(c, t, f) ==
  [tag |-> "IfThenElse", condition |-> c, true_exp |-> t, false_exp |-> f]

Extract(lo, hi, a) == [tag |-> "Extract", low_bit |-> lo, high_bit |-> hi, arg |-> a]

Concat(l, r) == [tag |-> "Concat", left |-> l, right |-> r]

(***************************************************************************)
(* Expression::substitute and Expression::replace_let_bindings.  The code  *)
(* mutates the tree in place; the operators return the tree it leaves.     *)
(***************************************************************************)
RECURSIVE substitute(_, _, _)
substitute(self, to_replace, replace_with) ==
  IF self = to_replace
    THEN replace_with
    ELSE CASE self.tag \in {"Var", "Const", "Unknown"} -> self
           [] self.tag = "Load" ->
                [self EXCEPT !.memory = substitute(@, to_replace, replace_with),
                             !.address = substitute(@, to_replace, replace_with)]
           [] self.tag = "Store" ->
                [self EXCEPT !.memory = substitute(@, to_replace, replace_with),
                             !.address = substitute(@, to_replace, replace_with),
                             !.value = substitute(@, to_replace, replace_with)]
           [] self.tag = "BinOp" ->
                [self EXCEPT !.lhs = substitute(@, to_replace, replace_with),
                             !.rhs = substitute(@, to_replace, replace_with)]
           [] self.tag = "UnOp" ->
                [self EXCEPT !.arg = substitute(@, to_replace, replace_with)]
           [] self.tag = "Cast" ->
                [self EXCEPT !.arg = substitute(@, to_replace, replace_with)]
           [] self.tag = "Let" ->
                [self EXCEPT !.bound_exp = substitute(@, to_replace, replace_with),
                             !.body_exp = substitute(@, to_replace, replace_with)]
           [] self.tag = "IfThenElse" ->
                [self EXCEPT !.condition = substitute(@, to_replace, replace_with),
                             !.true_exp = substitute(@, to_replace, replace_with),
                             !.false_exp = substitute(@, to_replace, replace_with)]
           [] self.tag = "Extract" ->
                [self EXCEPT !.arg = substitute(@, to_replace, replace_with)]
           [] self.tag = "Concat" ->
                [self EXCEPT !.left = substitute(@, to_replace, replace_with),
                             !.right = substitute(@, to_replace, replace_with)]

RECURSIVE replace_let_bindings(_)

\* the Let arm with the substitution left out
replace_let_arm_no_substitute(var, bound_exp, body_exp) ==
  replace_let_bindings(body_exp)

\* the Let arm with the substitution done before the body's own eliminations
replace_let_arm_substitute_first(var, bound_exp, body_exp) ==
  replace_let_bindings(substitute(body_exp, Var(var), bound_exp))

\* the Let arm: the body is eliminated first, then Var(var) is substituted by
\* bound_exp as it stands (bound_exp itself is not eliminated), and the
\* node becomes the body
replace_let_arm(var, bound_exp, body_exp) ==
  substitute(replace_let_bindings(body_exp), Var(var), bound_exp)

replace_let_bindings(self) ==
  CASE self.tag \in {"Var", "Const", "Unknown"} -> self
    [] self.tag = "Load" ->
         [self EXCEPT !.memory = replace_let_bindings(@),
                      !.address = replace_let_bindings(@)]
    [] self.tag = "Store" ->
         [self EXCEPT !.memory = replace_let_bindings(@),
                      !.address = replace_let_bindings(@),
                      !.value = replace_let_bindings(@)]
    [] self.tag = "BinOp" ->
         [self EXCEPT !.lhs = replace_let_bindings(@),
                      !.rhs = replace_let_bindings(@)]
    [] self.tag = "UnOp" -> [self EXCEPT !.arg = replace_let_bindings(@)]
    [] self.tag = "Cast" -> [self EXCEPT !.arg = replace_let_bindings(@)]
    [] self.tag = "Let" -> replace_let_arm(self.var, self.bound_exp, self.body_exp)
    [] self.tag = "IfThenElse" ->
         [self EXCEPT !.condition = replace_let_bindings(@),
                      !.true_exp = replace_let_bindings(@),
                      !.false_exp = replace_let_bindings(@)]
    [] self.tag = "Extract" -> [self EXCEPT !.arg = replace_let_bindings(@)]
    [] self.tag = "Concat" ->
         [self EXCEPT !.left = replace_let_bindings(@),
                      !.right = replace_let_bindings(@)]

(***************************************************************************)
(* Expression::bitsize.  BitSize arithmetic is u16 arithmetic: where the   *)
(* result leaves the range, a build with overflow checks (the debug        *)
(* profile) fails fatally and a build without them (the release profile)   *)
(* wraps around.  `checks` says which build runs.                          *)
(***************************************************************************)
u16_sub(a, b, checks) ==
  IF a = PANIC \/ b = PANIC THEN PANIC
  ELSE IF a - b >= 0 THEN a - b
  ELSE IF checks THEN PANIC
  ELSE a - b + BitSizeRange

u16_add(a, b, checks) ==
  IF a = PANIC \/ b = PANIC THEN PANIC
  ELSE IF a + b < BitSizeRange THEN a + b
  ELSE IF checks THEN PANIC
  ELSE a + b - BitSizeRange

\* `as u16` of the usize width of a Bitvector: truncates
as_u16(n) == n % BitSizeRange

\* the comparison operators of BinOpType
ComparisonOps == {"EQ", "NEQ", "LT", "LE", "SLT", "SLE"}

RECURSIVE bitsize(_, _)

\* the Let arm giving the width of the body instead of failing
bitsize_of_let_as_body(self, checks) == bitsize(self.body_exp, checks)

\* the Let arm of bitsize: panic!()
bitsize_of_let(self, checks) == PANIC

bitsize(self, checks) ==
  CASE self.tag = "Var" -> unwrap(Variable_bitsize(self.var))
    [] self.tag = "Const" -> as_u16(self.width)
    [] self.tag = "Load" -> self.size
    [] self.tag = "Store" -> 0
    [] self.tag = "BinOp" ->
         IF self.op \in ComparisonOps THEN 1 ELSE bitsize(self.lhs, checks)
    [] self.tag = "UnOp" -> bitsize(self.arg, checks)
    [] self.tag = "Cast" -> self.width
    [] self.tag = "Let" -> bitsize_of_let(self, checks)
    [] self.tag = "Unknown" -> unwrap(Type_bitsize(self.type_))
    [] self.tag = "IfThenElse" -> bitsize(self.true_exp, checks)
    [] self.tag = "Extract" -> u16_sub(self.high_bit, self.low_bit, checks)
    [] self.tag = "Concat" ->
         u16_add(bitsize(self.left, checks), bitsize(self.right, checks), checks)

(***************************************************************************)
(* From<Expression> for IrExpression, with the operator tables.            *)
(***************************************************************************)
IrBinOpType_from(op) ==
  CASE op = "PLUS" -> "IntAdd"
    [] op = "MINUS" -> "IntSub"
    [] op = "TIMES" -> "IntMult"
    [] op = "DIVIDE" -> "IntDiv"
    [] op = "SDIVIDE" -> "IntSDiv"
    [] op = "MOD" -> "IntRem"
    [] op = "SMOD" -> "IntSRem"
    [] op = "LSHIFT" -> "IntLeft"
    [] op = "RSHIFT" -> "IntRight"
    [] op = "ARSHIFT" -> "IntSRight"
    [] op = "AND" -> "IntAnd"
    [] op = "OR" -> "IntOr"
    [] op = "XOR" -> "IntXOr"
    [] op = "EQ" -> "IntEqual"
    [] op = "NEQ" -> "IntNotEqual"
    [] op = "LT" -> "IntLess"
    [] op = "LE" -> "IntLessEqual"
    [] op = "SLT" -> "IntSLess"
    [] op = "SLE" -> "IntSLessEqual"

IrUnOpType_from(op) ==
  CASE op = "NEG" -> "Int2Comp"
    [] op = "NOT" -> "IntNegate"

\* Variable -> target variable (var.into()), converted 1:1
IrVariable_from(var) == var

\* a target node kept although building one of its parts failed
boxed_ignoring_failure(node, parts) == node

\* a target node is built from its parts, all of which are evaluated: a
\* fatal failure in any of them unwinds through the node
boxed(node, parts) == IF Panic \in parts THEN Panic ELSE node

RECURSIVE IrExpression_from(_, _)
IrExpression_from(e, checks) ==
  CASE e.tag = "Var" -> [tag |-> "Var", var |-> IrVariable_from(e.var)]
    [] e.tag = "Const" -> [tag |-> "Const", width |-> e.width, value |-> e.value]
    [] e.tag \in {"Load", "Store", "Let", "Unknown", "IfThenElse"} -> Panic
    [] e.tag = "BinOp" ->
         LET l == IrExpression_from(e.lhs, checks)
             r == IrExpression_from(e.rhs, checks)
         IN  boxed([tag |-> "BinOp", op |-> IrBinOpType_from(e.op), lhs |-> l, rhs |-> r],
                   {l, r})
    [] e.tag = "UnOp" ->
         LET a == IrExpression_from(e.arg, checks)
         IN  boxed([tag |-> "UnOp", op |-> IrUnOpType_from(e.op), arg |-> a], {a})
    [] e.tag = "Cast" ->
         LET ca == IrExpression_from(e.arg, checks)
         IN (CASE e.kind = "UNSIGNED" ->
                    boxed([tag |-> "Cast", arg |-> ca, op |-> "IntZExt",
                           size |-> ByteSize_from(e.width)], {ca})
               [] e.kind = "SIGNED" ->
                    boxed([tag |-> "Cast", arg |-> ca, op |-> "IntSExt",
                           size |-> ByteSize_from(e.width)], {ca})
               [] e.kind = "HIGH" ->
                    IF e.width % 8 # 0 THEN Panic
                    ELSE LET diff == u16_sub(bitsize(e.arg, checks), e.width, checks)
                         IN  IF diff = PANIC THEN Panic
                             ELSE boxed([tag |-> "Subpiece", arg |-> ca,
                                         low_byte |-> ByteSize_from(diff),
                                         size |-> ByteSize_from(e.width)], {ca})
               [] e.kind = "LOW" ->
                    boxed([tag |-> "Subpiece", arg |-> ca, low_byte |-> 0,
                           size |-> ByteSize_from(e.width)], {ca}))
    [] e.tag = "Extract" ->
         LET bits == u16_add(u16_sub(e.high_bit, e.low_bit, checks), 1, checks)
             ea == IrExpression_from(e.arg, checks)
         IN  IF bits = PANIC THEN Panic
             ELSE boxed([tag |-> "Subpiece", size |-> ByteSize_from(bits),
                         low_byte |-> ByteSize_from(e.low_bit), arg |-> ea], {ea})
    [] e.tag = "Concat" ->
         LET cl == IrExpression_from(e.left, checks)
             cr == IrExpression_from(e.right, checks)
         IN  boxed([tag |-> "BinOp", op |-> "Piece", lhs |-> cl, rhs |-> cr], {cl, cr})

(***************************************************************************)
(* The input trees.  A tree is built from a leaf by wrapping it, up to a   *)
(* bounded depth, in a variant whose other children are leaves.            *)
(***************************************************************************)
x == register("x")

z == register("z")

\* a variable whose type is not an immediate
m == [name |-> "m", type_ |-> Memory, is_temp |-> FALSE]

\* the constants of tests::replace_let_bindings
Const12 == Const(64, 12)

Const42 == Const(64, 42)

\* an 8 bit constant (tests::expression_deserialization)
Byte == Const(8, 234)

\* a constant as wide as a bitvector of a vector register file can be
Wide == Const(40000, 0)

LetLeaves == {Var(x), Var(z), Const42}

LetWraps(t) ==
     {Let(v, t, Var(w)) : v \in {x, z}, w \in {x, z}}
  \cup {Let(v, b, t) : v \in {x, z}, b \in {Var(x), Var(z), Const12}}
  \cup {BinOp("PLUS", t, Const42), BinOp("PLUS", Var(x), t)}

OpLeaves == {Var(x), Var(m), Byte, Wide, Unknown("unknown", Immediate(8))}

ExtractRanges == {<<8, 15>>, <<3, 12>>, <<8, 0>>, <<0, 65535>>}

CastShapes ==
  {<<"UNSIGNED", 12>>, <<"SIGNED", 16>>, <<"HIGH", 8>>, <<"HIGH", 12>>, <<"LOW", 8>>}

OpWraps(t) ==
     {BinOp("PLUS", t, Byte), BinOp("PLUS", Byte, t), BinOp("EQ", t, Byte)}
  \cup {UnOp("NEG", t)}
  \cup {Cast(c[1], c[2], t) : c \in CastShapes}
  \cup {Extract(r[1], r[2], t) : r \in ExtractRanges}
  \cup {Concat(t, Wide), Concat(Byte, t)}
  \cup {Load(t, Byte, 32), Load(Var(m), t, 32)}
  \cup {Store(t, Byte, Byte, 8), Store(Var(m), t, Byte, 8), Store(Var(m), Byte, t, 8)}
  \cup {IfThenElse(t, Byte, Byte), IfThenElse(Byte, t, Byte), IfThenElse(Byte, Byte, t)}
  \cup {Let(x, t, Var(x)), Let(x, Byte, t)}

(***************************************************************************)
(* The state machine: the lifter boundary constructs a tree (a leaf, then  *)
(* wrapped node by node); let-elimination may run on it; then its width is *)
(* inferred or it is lowered.  `family` says which of the two sets of      *)
(* trees is constructed and `height` is the tree's nesting depth.          *)
(***************************************************************************)
Init ==
  /\ \/ family = "let" /\ input \in LetLeaves
     \/ family = "op" /\ input \in OpLeaves
  /\ expr = input
  /\ height = 0
  /\ pc = "start"
  /\ width = 0
  /\ ir = [tag |-> "None"]
  /\ overflow_checks \in BOOLEAN

WrapLet ==
  /\ pc = "start"
  /\ family = "let"
  /\ height < LetDepth
  /\ \E t \in LetWraps(expr) : input' = t /\ expr' = t
  /\ height' = height + 1
  /\ UNCHANGED <<family, pc, width, ir, overflow_checks>>

WrapOp ==
  /\ pc = "start"
  /\ family = "op"
  /\ height < OpDepth
  /\ \E t \in OpWraps(expr) : input' = t /\ expr' = t
  /\ height' = height + 1
  /\ UNCHANGED <<family, pc, width, ir, overflow_checks>>

ReplaceLetBindings ==
  /\ pc = "start"
  /\ expr' = replace_let_bindings(expr)
  /\ pc' = "replaced"
  /\ UNCHANGED <<input, family, height, width, ir, overflow_checks>>

Bitsize ==
  /\ pc \in {"start", "replaced"}
  /\ width' = bitsize(expr, overflow_checks)
  /\ pc' = "sized"
  /\ UNCHANGED <<input, expr, family, height, ir, overflow_checks>>

Lower ==
  /\ pc \in {"start", "replaced"}
  /\ ir' = IrExpression_from(expr, overflow_checks)
  /\ pc' = "lowered"
  /\ UNCHANGED <<input, expr, family, height, width, overflow_checks>>

Next == WrapLet \/ WrapOp \/ ReplaceLetBindings \/ Bitsize \/ Lower

Spec == Init /\ [][Next]_vars

(***************************************************************************)
(* Vocabulary of the properties.  These definitions walk a tree through    *)
(* the list of its child fields, not through the arms of the code.         *)
(***************************************************************************)
ChildFields(tag) ==
  CASE tag = "Load" -> {"memory", "address"}
    [] tag = "Store" -> {"memory", "address", "value"}
    [] tag = "BinOp" -> {"lhs", "rhs"}
    [] tag \in {"UnOp", "Cast", "Extract"} -> {"arg"}
    [] tag = "Let" -> {"bound_exp", "body_exp"}
    [] tag = "IfThenElse" -> {"condition", "true_exp", "false_exp"}
    [] tag = "Concat" -> {"left", "right"}
    [] OTHER -> {}

\* some node of e, at any position, has one of the tags
RECURSIVE ContainsTag(_, _)
ContainsTag(e, tags) ==
  \/ e.tag \in tags
  \/ \E f \in ChildFields(e.tag) : ContainsTag(e[f], tags)

ContainsLet(e) == ContainsTag(e, {"Let"})

UnsupportedTags == {"Load", "Store", "Let", "Unknown", "IfThenElse"}

\* every Var of e has a declared type with a width
RECURSIVE AllVarsHaveWidth(_)
AllVarsHaveWidth(e) ==
  /\ e.tag = "Var" => e.var.type_.tag = "Immediate"
  /\ \A f \in ChildFields(e.tag) : AllVarsHaveWidth(e[f])

\* e with every subtree that is Var(v) replaced by b, every other node kept
RECURSIVE ReplaceVar(_, _, _)
ReplaceVar(e, v, b) ==
  IF e.tag = "Var" /\ e.var = v
    THEN b
    ELSE [f \in DOMAIN e |->
            IF f \in ChildFields(e.tag) THEN ReplaceVar(e[f], v, b) ELSE e[f]]

\* assignments of values to the variables x and z
Envs == [{"x", "z"} -> {0, 1}]

\* the value of a tree of Var, Const, BinOp PLUS and Let nodes under lexical
\* scoping: a Let evaluates its body with var bound to the value that
\* bound_exp has in the enclosing scope
RECURSIVE Value(_, _)
Value(e, env) ==
  CASE e.tag = "Var" -> env[e.var.name]
    [] e.tag = "Const" -> e.value
    [] e.tag = "BinOp" -> Value(e.lhs, env) + Value(e.rhs, env)
    [] e.tag = "Let" ->
         Value(e.body_exp, [env EXCEPT ![e.var.name] = Value(e.bound_exp, env)])

\* a Let node is the root of e or is reached from it through the children
\* whose width the width of e is computed from
RECURSIVE LetOnWidthPath(_)
LetOnWidthPath(e) ==
  CASE e.tag = "Let" -> TRUE
    [] e.tag = "UnOp" -> LetOnWidthPath(e.arg)
    [] e.tag = "BinOp" -> e.op \notin ComparisonOps /\ LetOnWidthPath(e.lhs)
    [] e.tag = "IfThenElse" -> LetOnWidthPath(e.true_exp)
    [] e.tag = "Concat" -> LetOnWidthPath(e.left) \/ LetOnWidthPath(e.right)
    [] OTHER -> FALSE

\* n bits take k bytes, rounded up
IsByteCount(k, n) == 8 * k >= n /\ 8 * k < n + 8

\* the source and the target of tests::replace_let_bindings
TestSource == Let(x, Const12, BinOp("PLUS", Var(x), Const42))

TestTarget == BinOp("PLUS", Const12, Const42)

\* e is a Let whose body is a Let of the same variable, and nothing else of
\* it contains a Let
Shadowing(e) ==
  /\ e.tag = "Let"
  /\ e.body_exp.tag = "Let"
  /\ e.body_exp.var = e.var
  /\ ~ContainsLet(e.bound_exp)
  /\ ~ContainsLet(e.body_exp.bound_exp)
  /\ ~ContainsLet(e.body_exp.body_exp)

\* the rebinding Let is the bound_exp of a Let of another variable y whose
\* body is Var(y)
ShadowingInBoundExp(e) ==
  /\ e.tag = "Let"
  /\ ~ContainsLet(e.bound_exp)
  /\ e.body_exp.tag = "Let"
  /\ e.body_exp.var # e.var
  /\ e.body_exp.body_exp = Var(e.body_exp.var)
  /\ e.body_exp.bound_exp.tag = "Let"
  /\ e.body_exp.bound_exp.var = e.var
  /\ ~ContainsLet(e.body_exp.bound_exp.bound_exp)
  /\ ~ContainsLet(e.body_exp.bound_exp.body_exp)

(***************************************************************************)
(* The claims.                                                             *)
(***************************************************************************)

\* C1: after replace_let_bindings the tree contains no Let node at any
\* position, whatever the input tree was.
C1_NoLetAfterElimination == pc = "replaced" => ~ContainsLet(expr)

\* C2: replace_let_bindings preserves the value of the tree under lexically
\* scoped let semantics, for every assignment of values to its free variables.
C2_EliminationPreservesValue ==
  (pc = "replaced" /\ family = "let") =>
    \A env \in Envs : Value(expr, env) = Value(input, env)

\* C3: a Let whose bound_exp and body_exp are Let-free becomes body_exp with
\* every subtree equal to Var(var) replaced by bound_exp and every other node
\* unchanged; the Let of tests::replace_let_bindings becomes the test's target.
C3_LetBecomesSubstitutedBody ==
  pc = "replaced" =>
    /\ (/\ input.tag = "Let"
        /\ ~ContainsLet(input.bound_exp)
        /\ ~ContainsLet(input.body_exp))
         => expr = ReplaceVar(input.body_exp, input.var, input.bound_exp)
    /\ input = TestSource => expr = TestTarget

C3_Witness == pc = "replaced" /\ input = TestSource /\ expr = TestTarget

\* C4: lowering a tree that contains a Load, Store, Let, Unknown or
\* IfThenElse node at any position fails fatally and yields no target tree.
C4_UnsupportedNodeIsFatal ==
  (pc = "lowered" /\ ContainsTag(expr, UnsupportedTags)) => ir = Panic

C4_Witness ==
  /\ pc = "lowered"
  /\ expr.tag = "BinOp"
  /\ expr.rhs.tag = "Cast"
  /\ expr.rhs.kind = "LOW"
  /\ expr.rhs.arg.tag = "Unknown"
  /\ ir = Panic

\* C5: lowering Cast{HIGH, width, arg} fails fatally when width % 8 # 0, and
\* otherwise (arg lowers, its variables have widths, width <= arg.bitsize())
\* yields a Subpiece of the lowered arg of width/8 bytes whose low_byte is
\* (arg.bitsize() - width)/8.
C5_CastHighLowering ==
  (/\ pc = "lowered"
   /\ expr.tag = "Cast"
   /\ expr.kind = "HIGH"
   /\ AllVarsHaveWidth(expr)) =>
    IF expr.width % 8 # 0
      THEN ir = Panic
      ELSE LET argbits == bitsize(expr.arg, overflow_checks)
               arg == IrExpression_from(expr.arg, overflow_checks)
           IN  (argbits # PANIC /\ expr.width <= argbits /\ arg # Panic) =>
                 /\ ir.tag = "Subpiece"
                 /\ ir.arg = arg
                 /\ ir.size * 8 = expr.width
                 /\ ir.low_byte = (argbits - expr.width) \div 8

\* C6 as claimed: lowering Extract{low_bit, high_bit, arg} with
\* low_bit <= high_bit (and an arg that lowers, its variables having widths)
\* yields a Subpiece of the lowered arg whose low_byte equals low_bit and
\* whose size is the byte size of high_bit - low_bit + 1 bits.
C6_ExtractLowByteIsLowBit ==
  (/\ pc = "lowered"
   /\ expr.tag = "Extract"
   /\ expr.low_bit <= expr.high_bit
   /\ AllVarsHaveWidth(expr)
   /\ IrExpression_from(expr.arg, overflow_checks) # Panic) =>
    /\ ir.tag = "Subpiece"
    /\ ir.arg = IrExpression_from(expr.arg, overflow_checks)
    /\ ir.low_byte = expr.low_bit
    /\ IsByteCount(ir.size, expr.high_bit - expr.low_bit + 1)

\* C6 as amended: under the same conditions the Subpiece's low_byte is
\* low_bit converted to bytes, rounded up, and its size is
\* high_bit - low_bit + 1 bits in bytes, rounded up; where high_bit - low_bit + 1 leaves the u16 range the lowering fails
\* fatally under overflow checks and yields size 0 without them.
C6_ExtractLowering ==
  (/\ pc = "lowered"
   /\ expr.tag = "Extract"
   /\ expr.low_bit <= expr.high_bit
   /\ AllVarsHaveWidth(expr)
   /\ IrExpression_from(expr.arg, overflow_checks) # Panic) =>
    IF expr.high_bit - expr.low_bit + 1 < BitSizeRange
      THEN /\ ir.tag = "Subpiece"
           /\ ir.arg = IrExpression_from(expr.arg, overflow_checks)
           /\ IsByteCount(ir.low_byte, expr.low_bit)
           /\ IsByteCount(ir.size, expr.high_bit - expr.low_bit + 1)
      ELSE IF overflow_checks
             THEN ir = Panic
             ELSE /\ ir.tag = "Subpiece"
                  /\ ir.arg = IrExpression_from(expr.arg, overflow_checks)
                  /\ IsByteCount(ir.low_byte, expr.low_bit)
                  /\ ir.size = 0

C6_Witness ==
  /\ pc = "lowered"
  /\ expr.tag = "Extract"
  /\ AllVarsHaveWidth(expr)
  /\ expr.low_bit = 3
  /\ expr.high_bit = 12
  /\ ir.tag = "Subpiece"
  /\ ir.low_byte = 1
  /\ ir.size = 2

\* C7 as claimed: bitsize() fails fatally on every tree that contains a Let
\* node anywhere.
C7_AnyLetIsFatal == (pc = "sized" /\ ContainsLet(expr)) => width = PANIC

\* C7 as amended: bitsize() fails fatally on every tree in which a Let node is
\* the root or is reached from it through UnOp args, lhs of non-comparison
\* BinOps, true_exp of IfThenElse and operands of Concat; a Cast returns its
\* declared width and a comparison returns 1 whatever their operands contain.
C7_LetOnWidthPathIsFatal ==
  pc = "sized" =>
    /\ LetOnWidthPath(expr) => width = PANIC
    /\ expr.tag = "Cast" => width = expr.width
    /\ (expr.tag = "BinOp" /\ expr.op \in ComparisonOps) => width = 1

C7_Witness ==
  /\ pc = "sized"
  /\ expr.tag = "Concat"
  /\ expr.right.tag = "Let"
  /\ ~ContainsLet(expr.left)
  /\ width = PANIC

\* C8: bitsize() returns a width without failing fatally on every Let-free
\* tree in which every Var has a declared type with a width.
C8_BitsizeTotalOnLetFree ==
  (pc = "sized" /\ ~ContainsLet(expr) /\ AllVarsHaveWidth(expr)) => width # PANIC

\* C9: the width of Concat{left, right} is the integer sum of the widths of
\* left and right, for all Let-free operands that have a width.
C9_ConcatWidthIsSum ==
  (/\ pc = "sized"
   /\ expr.tag = "Concat"
   /\ ~ContainsLet(expr)
   /\ bitsize(expr.left, overflow_checks) # PANIC
   /\ bitsize(expr.right, overflow_checks) # PANIC) =>
    width = bitsize(expr.left, overflow_checks) + bitsize(expr.right, overflow_checks)

\* C10 as claimed: for Let{x, b1, Let{x, b2, inner}} the occurrences of Var(x)
\* inside inner end up substituted by the outer binding b1.
C10_InnerOccurrencesGetOuterBinding ==
  (pc = "replaced" /\ Shadowing(input)) =>
    expr = ReplaceVar(input.body_exp.body_exp, input.var, input.bound_exp)

\* C10 as amended: for Let{x, b1, Let{x, b2, inner}} the occurrences of Var(x)
\* inside inner are substituted by the inner binding b2 (and the Var(x) of b2
\* then by b1); they are substituted by the outer binding b1 when the
\* rebinding Let is the bound_exp of another Let of the body, where it
\* survives the body's elimination.
C10_InnerOccurrencesGetInnerBinding ==
  pc = "replaced" =>
    /\ Shadowing(input) =>
         expr = ReplaceVar(ReplaceVar(input.body_exp.body_exp, input.var,
                                      input.body_exp.bound_exp),
                           input.var, input.bound_exp)
    /\ ShadowingInBoundExp(input) =>
         expr = Let(input.var,
                    ReplaceVar(input.body_exp.bound_exp.bound_exp, input.var,
                               input.bound_exp),
                    ReplaceVar(input.body_exp.bound_exp.body_exp, input.var,
                               input.bound_exp))

C10_Witness ==
  /\ pc = "replaced"
  /\ input = Let(x, Const12, Let(x, Var(z), Var(x)))
  /\ expr = Var(z)

====
